---- MODULE Spec2Model ----
(***************************************************************************)
(* Model of the Steam animation daemon (src/daemon/src):                   *)
(*   steam_monitor.rs   - the lifecycle event detector (SteamMonitor)      *)
(*   animation.rs       - selection and mount controller (AnimationManager)*)
(*   video_processor.rs - transcoding cache (VideoProcessor)               *)
(*   main.rs            - main and the dispatch loop run_daemon            *)
(*   config.rs          - the configuration and its file (Config)          *)
(* Each component has its own specification over the shared variables:     *)
(*   SpecMonitor  start_monitoring driven over polls and journal lines     *)
(*   SpecCache    VideoProcessor's public operations, called in any order  *)
(*   SpecSweep    cleanup_cache over the cache directories earlier runs    *)
(*                may have left                                            *)
(*   SpecManager  AnimationManager's public methods, called in any order   *)
(*   SpecDaemon   main as it composes the components                       *)
(*   SpecDispatch the dispatch loop of run_daemon on a bus that is fed     *)
(*   SpecKey      generate_cache_key over the transcoding settings         *)
(*   SpecLoop     run_daemon with both arms of its select live             *)
(*   SpecConfig   Config::save and Config::load over any Config value      *)
(***************************************************************************)
EXTENDS Integers, Sequences, FiniteSets, TLC

\* ------------------------------------------------------------------ bounds
\* Handler steps (poll ticks and journal events) one run of the detector takes.
MaxSteps == 4
\* Unread SystemEvents the journal channel holds in the model (the channel's
\* own capacity, 16, is never reached within these bounds).
MaxJournal == 1

\* The clock and file modification times range over whole days 0..MaxDay.
MaxDay == 2
\* Operations one run of the cache store takes.
MaxOps == 2
\* Calls of its methods one run of the manager takes.
MaxCalls == 2

\* --------------------------------------------------------------- constants
\* broadcast::channel(32): the event bus keeps 32 unread events per receiver.
BusCap == 32
\* tokio::time::sleep(Duration::from_secs(30)): the maintenance arm of the
\* select of run_daemon.
SleepSecs == 30

None == "None"

\* The process ids the process table may hold.
Pids == {101, 102}
\* What a process-table entry is to the poller: absent; a process one of whose
\* arguments contains "steam"; a process none of whose arguments does; an entry
\* whose read fails (Err(_) => continue, or cmdline() is Err).
ProcStates == {"absent", "steam", "other", "unreadable"}

\* The substring markers monitor_systemd_journal looks for in a line.  A line
\* is the set of markers it contains; "System resumed" contains "resume".
Markers == {"suspend", "Suspending system", "resume", "System resumed"}
Lines == {l \in SUBSET Markers : ("System resumed" \in l) => ("resume" \in l)}

\* One mebibyte and one day, in the units the code compares: bytes and seconds.
MB == 1024 * 1024
Day == 24 * 3600
Times == {d * Day : d \in 0..MaxDay}

\* Source files of animations (Animation.path).
SourcePaths == {"a/deck_startup.webm", "b/deck_startup.webm", "a/steam_os_suspend.webm"}
\* fs::metadata of a source file: its length and modification time, or Missing.
Missing == [len |-> -1, modified |-> -1]
SourceMetas == {[len |-> 1 * MB, modified |-> 0], [len |-> 2 * MB, modified |-> Day]}

\* Sizes of a complete transcoder output; a partial or empty output has size 0.
OutSizes == {10 * MB}

VARIABLES
  \* environment of the detector
  procTable,           \* the host's process table: [Pids -> ProcStates]
  journalPc,           \* the journalctl reader task: "running" | "ended"
  \* SteamMonitor
  current_steam_pids,  \* SteamMonitor.current_steam_pids
  was_suspended,       \* SteamMonitor.was_suspended
  journal,             \* unread SystemEvents of the journal channel
  fromResumeLine,      \* for each of them: the line it was read from holds a resume marker
  monitorPc,           \* start_monitoring: "not_started" | "running" | "failed"
  subscribed,          \* a receiver of event_sender exists
  bus,                 \* events the receiver has not read yet
  busMissed,           \* events dropped for the receiver since its last recv
  published,           \* every event handed to send_event, in order
  steps,               \* handler steps taken (bounded by MaxSteps)
  lastMon,             \* what the detector's latest step was and did
  \* VideoProcessor and its environment
  config,              \* the Config held (the components never change theirs)
  cache,               \* the files of the cache directory: [name, size, modified]
  sources,             \* metadata of the source files: [SourcePaths -> meta]
  now,                 \* SystemTime::now(), seconds
  ffmpegRunning,       \* outputs that a timed-out ffmpeg is still writing
  failedKeys,          \* outputs whose latest transcode failed
  ops,                 \* operations taken (bounded by MaxOps)
  lastVp,              \* what the cache store's latest operation was and did
  prevVp,              \* the operation before it
  \* AnimationManager and the override directory
  animations,          \* the catalog: [id -> [path, animation_type, optimized_path]]
  current_animations,  \* AnimationManager.current_animations
  targets,             \* what is at each type's target path
  lastMgr,             \* what the manager's latest operation was and did
  \* main
  daemonPc,            \* main: "running" (in run_daemon) | "stopped"
  exitCause,           \* why the select of main ended: None | "signal" | "error"
  sleep_left,          \* seconds left of the sleep(30 s) the select of run_daemon polls
  \* Config and the file at the config path
  config_file,         \* the file at the config path: NoFile, or File(its TOML document)
  lastCfg              \* what the latest call of Config::save or Config::load did

monVars == <<procTable, journalPc, current_steam_pids, was_suspended, journal, fromResumeLine,
             monitorPc, subscribed, bus, busMissed, published, steps, lastMon>>

vpVars == <<config, cache, sources, now, ffmpegRunning, failedKeys, ops, lastVp, prevVp>>

mgrVars == <<animations, current_animations, targets, lastMgr>>

mainVars == <<daemonPc, exitCause, sleep_left>>

cfgVars == <<config_file, lastCfg>>

vars == <<monVars, vpVars, mgrVars, mainVars, cfgVars>>

\* What a step of one component leaves alone.
notMon == <<vpVars, mgrVars, mainVars, cfgVars>>
notVp == <<monVars, mgrVars, mainVars, cfgVars>>

\* ------------------------------------------------------------ SteamMonitor

\* The pids check_steam_processes collects (lines 73-87).
MatchingPids(table) == {p \in Pids : table[p] = "steam"}

\* A plausible slip: Starting whenever a new pid shows up.
check_steam_processes_any_new(prev, current_pids) ==
  LET new_pids == current_pids \ prev
      removed_pids == prev \ current_pids
  IN  [events |-> (IF new_pids # {} THEN <<"Starting">> ELSE <<>>)
                  \o (IF removed_pids # {} /\ current_pids = {}
                        THEN <<"Shutdown">> ELSE <<>>),
       pids |-> current_pids]

\* check_steam_processes after the table was read (lines 89-104): the events
\* it sends, in order, and the new current_steam_pids.
check_steam_processes(prev, current_pids) ==
  LET new_pids == current_pids \ prev
      removed_pids == prev \ current_pids
  IN  [events |-> (IF new_pids # {} /\ prev = {} THEN <<"Starting">> ELSE <<>>)
                  \o (IF removed_pids # {} /\ current_pids = {}
                        THEN <<"Shutdown">> ELSE <<>>),
       pids |-> current_pids]

\* monitor_systemd_journal's classification of one line (lines 140-144).
classify_line(line) ==
  IF "suspend" \in line \/ "Suspending system" \in line THEN "Suspend"
  ELSE IF "resume" \in line \/ "System resumed" \in line THEN "Resume"
  ELSE None

\* The line holds one of the markers of line 142.
HasResumeMarker(line) == "resume" \in line \/ "System resumed" \in line

\* A plausible slip: the resume arm without its was_suspended guard.
handle_system_event_unguarded(event, suspended) ==
  IF event = "Suspend"
    THEN [was_suspended |-> TRUE, events |-> <<"Suspending">>]
    ELSE [was_suspended |-> FALSE, events |-> <<"Resuming">>]

\* A plausible slip: a suspend marker while was_suspended is set already
\* taken as a repetition and not published.
handle_system_event_once(event, suspended) ==
  IF event = "Suspend"
    THEN [was_suspended |-> TRUE,
          events |-> IF suspended THEN <<>> ELSE <<"Suspending">>]
    ELSE IF suspended
      THEN [was_suspended |-> FALSE, events |-> <<"Resuming">>]
      ELSE [was_suspended |-> suspended, events |-> <<>>]

\* The journal arm of start_monitoring's select (lines 52-66).
handle_system_event(event, suspended) ==
  IF event = "Suspend"
    THEN [was_suspended |-> TRUE, events |-> <<"Suspending">>]
    ELSE IF suspended
      THEN [was_suspended |-> FALSE, events |-> <<"Resuming">>]
      ELSE [was_suspended |-> suspended, events |-> <<>>]

\* broadcast::Sender::send for the one receiver: a full buffer drops its
\* oldest unread event and the receiver is told on its next recv.
bus_send(b, event) ==
  IF Len(b.queue) >= BusCap
    THEN [queue |-> Append(Tail(b.queue), event), missed |-> b.missed + 1]
    ELSE [queue |-> Append(b.queue, event), missed |-> b.missed]

RECURSIVE bus_send_all(_, _)
bus_send_all(b, events) ==
  IF events = <<>> THEN b
  ELSE bus_send_all(bus_send(b, Head(events)), Tail(events))

\* send_event for each event in turn (lines 107-112): with no receiver the
\* send fails, is warned about and is not an error.
send_events(events) ==
  /\ published' = published \o events
  /\ IF subscribed
       THEN LET b == bus_send_all([queue |-> bus, missed |-> busMissed], events)
            IN  bus' = b.queue /\ busMissed' = b.missed
       ELSE UNCHANGED <<bus, busMissed>>

\* interval.tick() arm: check_steam_processes reads the table and succeeds.
PollTick ==
  /\ UNCHANGED notMon
  /\ monitorPc = "running"
  /\ steps < MaxSteps
  /\ LET r == check_steam_processes(current_steam_pids, MatchingPids(procTable))
     IN  /\ current_steam_pids' = r.pids
         /\ send_events(r.events)
         /\ lastMon' = [op |-> "poll", prevPids |-> current_steam_pids,
                        prevSuspended |-> was_suspended, event |-> None,
                        emitted |-> r.events]
  /\ steps' = steps + 1
  /\ UNCHANGED <<procTable, journalPc, was_suspended, journal, fromResumeLine, monitorPc, subscribed>>

\* interval.tick() arm: all_processes()? fails (line 76), check_steam_processes
\* returns the error and start_monitoring returns it (line 49).
PollFails ==
  /\ UNCHANGED notMon
  /\ monitorPc = "running"
  /\ steps < MaxSteps
  /\ monitorPc' = "failed"
  /\ lastMon' = [op |-> "poll_failed", prevPids |-> current_steam_pids,
                 prevSuspended |-> was_suspended, event |-> None,
                 emitted |-> <<>>]
  /\ steps' = steps + 1
  /\ UNCHANGED <<procTable, journalPc, current_steam_pids, was_suspended, journal, fromResumeLine,
                 subscribed, bus, busMissed, published>>

\* journalctl_monitor.recv() arm with an event (lines 52-66).
RecvJournal ==
  /\ UNCHANGED notMon
  /\ monitorPc = "running"
  /\ steps < MaxSteps
  /\ journal # <<>>
  /\ LET r == handle_system_event(Head(journal), was_suspended)
     IN  /\ was_suspended' = r.was_suspended
         /\ send_events(r.events)
         /\ lastMon' = [op |-> "journal", prevPids |-> current_steam_pids,
                        prevSuspended |-> was_suspended, event |-> Head(journal),
                        emitted |-> r.events]
  /\ journal' = Tail(journal)
  /\ fromResumeLine' = Tail(fromResumeLine)
  /\ steps' = steps + 1
  /\ UNCHANGED <<procTable, journalPc, current_steam_pids, monitorPc, subscribed>>

\* journalctl_monitor.recv() arm once the reader task is gone and the channel
\* is drained: recv is Err(Closed), and `event?` returns it (line 53).
RecvJournalClosed ==
  /\ UNCHANGED notMon
  /\ monitorPc = "running"
  /\ journalPc = "ended"
  /\ journal = <<>>
  /\ monitorPc' = "failed"
  /\ lastMon' = [op |-> "journal_closed", prevPids |-> current_steam_pids,
                 prevSuspended |-> was_suspended, event |-> None,
                 emitted |-> <<>>]
  /\ UNCHANGED <<procTable, journalPc, current_steam_pids, was_suspended, journal, fromResumeLine,
                 subscribed, bus, busMissed, published, steps>>

\* The reader task reads one line and sends what it classifies (lines 139-145).
JournalLine ==
  /\ UNCHANGED notMon
  /\ journalPc = "running"
  /\ Len(journal) < MaxJournal
  /\ \E line \in Lines :
        /\ journal' = IF classify_line(line) = None THEN journal
                      ELSE Append(journal, classify_line(line))
        /\ fromResumeLine' = IF classify_line(line) = None THEN fromResumeLine
                             ELSE Append(fromResumeLine, HasResumeMarker(line))
  /\ UNCHANGED <<procTable, journalPc, current_steam_pids, was_suspended, monitorPc,
                 subscribed, bus, busMissed, published, steps, lastMon>>

\* journalctl cannot be spawned, exits, or its output cannot be read: the
\* reader task ends and drops its sender (lines 117-121, 139, 147).
JournalEnds ==
  /\ UNCHANGED notMon
  /\ journalPc = "running"
  /\ journalPc' = "ended"
  /\ UNCHANGED <<procTable, current_steam_pids, was_suspended, journal, fromResumeLine, monitorPc,
                 subscribed, bus, busMissed, published, steps, lastMon>>

\* The host starts, ends or changes a process.
ProcChange ==
  /\ UNCHANGED notMon
  /\ \E p \in Pids, s \in ProcStates :
        /\ procTable[p] # s
        /\ procTable' = [procTable EXCEPT ![p] = s]
  /\ UNCHANGED <<journalPc, current_steam_pids, was_suspended, journal, fromResumeLine, monitorPc,
                 subscribed, bus, busMissed, published, steps, lastMon>>

\* ---------------------------------------------------------- VideoProcessor

\* The settings of Config::default() the cache store reads (config.rs 77-84),
\* with the cache budget and the maximal age as loaded.
CacheConfigs ==
  [randomize_mode : {"Disabled"}, current_boot_animation : {None},
   current_suspend_animation : {None}, shuffle_exclusions : {{}},
   max_animation_duration : {5}, target_width : {1280}, target_height : {720},
   video_quality : {23}, max_cache_size_mb : {35, 500}, cache_max_age_days : {1, 30}]

\* The configurations that carry the transcoding settings of
\* Config::default() (config.rs 77-80) or differ from them in one setting,
\* each as validate_and_fix (config.rs 156-175) leaves it.
KeyConfigs ==
  {c \in [randomize_mode : {"Disabled"}, current_boot_animation : {None},
          current_suspend_animation : {None}, shuffle_exclusions : {{}},
          max_animation_duration : {5, 30}, target_width : {1280, 1024},
          target_height : {720, 800}, video_quality : {23, 24},
          max_cache_size_mb : {500}, cache_max_age_days : {30}] :
     Cardinality({f \in {"max_animation_duration", "target_width",
                         "target_height", "video_quality"} :
                    c[f] # (CHOOSE d \in CacheConfigs : TRUE)[f]}) <= 1}

\* Cache files left by earlier runs for sources that are gone since.
Leftovers ==
  [name : [path : {"removed/1.webm"}, len : {1 * MB}, modified : {0},
           max_animation_duration : {5}, target_width : {1280},
           target_height : {720}, video_quality : {23}],
   size : {10 * MB}, modified : Times]
  \cup
  [name : [path : {"removed/2.webm"}, len : {1 * MB}, modified : {0},
           max_animation_duration : {5}, target_width : {1280},
           target_height : {720}, video_quality : {23}],
   size : {20 * MB}, modified : Times]
  \cup
  [name : [path : {"removed/3.webm"}, len : {1 * MB}, modified : {0},
           max_animation_duration : {5}, target_width : {1280},
           target_height : {720}, video_quality : {23}],
   size : {30 * MB}, modified : Times]

\* A directory holds one file per name.
IsDirectory(files) == \A f \in files, g \in files : f.name = g.name => f = g

Exists(files, name) == \E f \in files : f.name = name
FileAt(files, name) == CHOOSE f \in files : f.name = name
Remove(files, name) == {f \in files : f.name # name}
\* Creating or overwriting a file, modified now.
WriteFile(files, name, size, clock) ==
  Remove(files, name) \cup {[name |-> name, size |-> size, modified |-> clock]}

\* to_le_bytes of an unsigned integer of `width` bytes.
RECURSIVE to_le_bytes(_, _)
to_le_bytes(n, width) ==
  IF width = 0 THEN <<>> ELSE <<n % 256>> \o to_le_bytes(n \div 256, width - 1)

\* A plausible slip: the quality left out of what is hashed.
hash_input_without_quality(path, meta, cfg) ==
  <<path>> \o to_le_bytes(meta.len, 8) \o to_le_bytes(meta.modified, 8)
    \o to_le_bytes(cfg.max_animation_duration, 8)
    \o to_le_bytes(cfg.target_width, 4) \o to_le_bytes(cfg.target_height, 4)

\* What generate_cache_key feeds the hasher (lines 113-127), update by
\* update: the path (its bytes, here the path itself), the length and the
\* modification time in seconds as u64, the maximal duration in seconds as
\* u64, and the width, the height and the quality as u32.
hash_input(path, meta, cfg) ==
  <<path>> \o to_le_bytes(meta.len, 8) \o to_le_bytes(meta.modified, 8)
    \o to_le_bytes(cfg.max_animation_duration, 8)
    \o to_le_bytes(cfg.target_width, 4) \o to_le_bytes(cfg.target_height, 4)
    \o to_le_bytes(cfg.video_quality, 4)

\* generate_cache_key (lines 109-131): the bytes the hasher is fed, in order.
\* The 16 hexadecimal digits kept of their SHA-256 are taken to differ
\* whenever the bytes do.
generate_cache_key(path, meta, cfg) ==
  [path |-> path, len |-> meta.len, modified |-> meta.modified,
   max_animation_duration |-> cfg.max_animation_duration,
   target_width |-> cfg.target_width, target_height |-> cfg.target_height,
   video_quality |-> cfg.video_quality]

\* What one run of ffmpeg does: it cannot be executed ("spawn_fail"), exits
\* with status 0 ("ok") or another ("fail"), or is still running when the
\* timeout ends ("timeout"); and the output file it leaves: none (None), a
\* file of size 0, or a file of some size.
FfmpegOutputs == {-1, 0} \cup OutSizes
FfmpegRuns ==
  [result : {"ok", "fail", "timeout"}, output : FfmpegOutputs]
  \cup [result : {"spawn_fail"}, output : {-1}]

\* The cache directory once ffmpeg -y has run on `output`.
ffmpeg_writes(files, output, ff, clock) ==
  IF ff.output = -1 THEN files ELSE WriteFile(files, output, ff.output, clock)

\* process_video (lines 49-107): whether it returns Ok, the cache directory
\* afterwards, and whether the ffmpeg it started is still running (tokio's
\* timeout drops the future of cmd.output(), which does not kill the child).
process_video(files, output, ff, clock) ==
  LET after == ffmpeg_writes(files, output, ff, clock)
  IN  [ok |-> /\ ff.result = "ok"
              /\ Exists(after, output)
              /\ FileAt(after, output).size # 0,
       files |-> after,
       orphan |-> ff.result = "timeout"]

\* A plausible slip: no look at the cache before transcoding.
optimize_animation_no_lookup(files, path, meta, cfg, mkdir_ok, ff, clock) ==
  LET key == generate_cache_key(path, meta, cfg)
      pv == process_video(files, key, ff, clock)
  IN  IF meta = Missing \/ ~mkdir_ok
        THEN [ok |-> FALSE, hit |-> FALSE, key |-> key, invoked |-> 0,
              files |-> files, orphan |-> FALSE]
        ELSE [ok |-> pv.ok, hit |-> FALSE, key |-> key, invoked |-> 1,
              files |-> pv.files, orphan |-> pv.orphan]

\* optimize_animation (lines 27-47): whether it returns Ok, the cached path
\* (the key names the file), whether that was a cache hit, the number of
\* ffmpeg runs, and the cache directory afterwards.  It fails before any
\* ffmpeg run when the source's metadata cannot be read (line 111) or the
\* cache directory cannot be created (line 40).
optimize_animation(files, path, meta, cfg, mkdir_ok, ff, clock) ==
  LET key == generate_cache_key(path, meta, cfg)
      pv == process_video(files, key, ff, clock)
  IN  IF meta = Missing
        THEN [ok |-> FALSE, hit |-> FALSE, key |-> key, invoked |-> 0,
              files |-> files, orphan |-> FALSE]
      ELSE IF Exists(files, key)
        THEN [ok |-> TRUE, hit |-> TRUE, key |-> key, invoked |-> 0,
              files |-> files, orphan |-> FALSE]
      ELSE IF ~mkdir_ok
        THEN [ok |-> FALSE, hit |-> FALSE, key |-> key, invoked |-> 0,
              files |-> files, orphan |-> FALSE]
      ELSE [ok |-> pv.ok, hit |-> FALSE, key |-> key, invoked |-> 1,
            files |-> pv.files, orphan |-> pv.orphan]

\* The keys whose latest transcode failed, after one optimize_animation.
failed_after(failed, r) ==
  IF r.invoked = 0 THEN failed
  ELSE IF r.ok THEN failed \ {r.key}
  ELSE failed \cup {r.key}

max_cache_size(cfg) == cfg.max_cache_size_mb * 1024 * 1024
max_age(cfg) == cfg.cache_max_age_days * 24 * 3600

RECURSIVE SumSizes(_)
SumSizes(files) ==
  IF files = {} THEN 0
  ELSE LET f == CHOOSE g \in files : TRUE
       IN  f.size + SumSizes(files \ {f})

\* The orders entries.sort_by_key(modified) can leave the entries in (line
\* 157): ascending by modification time, files of one time in the order
\* read_dir listed them, which is any.
RECURSIVE SortedOrders(_)
SortedOrders(files) ==
  IF files = {} THEN {<<>>}
  ELSE UNION {{<<f>> \o s : s \in SortedOrders(files \ {f})} :
              f \in {g \in files : \A h \in files : g.modified <= h.modified}}

\* A plausible slip: the loop left after the first file it removed.
sweep_walk_one_eviction(entries, total_size, clock, cfg, undeletable) ==
  LET should_remove(f) ==
        IF clock >= f.modified
          THEN (clock - f.modified > max_age(cfg)) \/ (total_size > max_cache_size(cfg))
          ELSE FALSE
      hits == {i \in 1..Len(entries) :
                 should_remove(entries[i]) /\ entries[i].name \notin undeletable}
      first == IF hits = {} THEN Len(entries) + 1
               ELSE CHOOSE i \in hits : \A j \in hits : i <= j
  IN  [i \in 1..Len(entries) |->
         [file |-> entries[i],
          total_size |-> IF i <= first THEN total_size
                         ELSE total_size - entries[first].size,
          should_remove |-> i <= first /\ should_remove(entries[i]),
          deleted |-> i = first]]

\* A plausible slip: the total reduced for a file whose removal failed.
RECURSIVE sweep_walk_counting_failures(_, _, _, _, _)
sweep_walk_counting_failures(entries, total_size, clock, cfg, undeletable) ==
  IF entries = <<>> THEN <<>>
  ELSE LET f == Head(entries)
           should_remove ==
             IF clock >= f.modified
               THEN (clock - f.modified > max_age(cfg)) \/ (total_size > max_cache_size(cfg))
               ELSE FALSE
           deleted == should_remove /\ f.name \notin undeletable
       IN  <<[file |-> f, total_size |-> total_size,
              should_remove |-> should_remove, deleted |-> deleted]>>
           \o sweep_walk_counting_failures(Tail(entries),
                         IF should_remove THEN total_size - f.size ELSE total_size,
                         clock, cfg, undeletable)

\* The loop of cleanup_cache (lines 164-181) over the sorted entries: for
\* each entry in turn, the running total when it is inspected, whether it
\* should be removed, and whether it was (remove_file fails for the files in
\* `undeletable`, which is warned about and leaves the total as it is).
RECURSIVE sweep_walk(_, _, _, _, _)
sweep_walk(entries, total_size, clock, cfg, undeletable) ==
  IF entries = <<>> THEN <<>>
  ELSE LET f == Head(entries)
           should_remove ==
             IF clock >= f.modified
               THEN (clock - f.modified > max_age(cfg)) \/ (total_size > max_cache_size(cfg))
               ELSE FALSE
           deleted == should_remove /\ f.name \notin undeletable
       IN  <<[file |-> f, total_size |-> total_size,
              should_remove |-> should_remove, deleted |-> deleted]>>
           \o sweep_walk(Tail(entries),
                         IF deleted THEN total_size - f.size ELSE total_size,
                         clock, cfg, undeletable)

\* cleanup_cache once read_dir succeeded (lines 139-188): the walk over the
\* entries in `order` and the cache directory afterwards.
cleanup_cache(files, order, clock, cfg, undeletable) ==
  LET walk == sweep_walk(order, SumSizes(files), clock, cfg, undeletable)
  IN  [walk |-> walk,
       files |-> files \ {walk[i].file : i \in {j \in 1..Len(walk) : walk[j].deleted}}]

NoWalk == <<>>
NoKey == generate_cache_key(None, Missing, [max_animation_duration |-> 0,
           target_width |-> 0, target_height |-> 0, video_quality |-> 0])

VpOp(op, ok, path, src, key, hit, invoked, walk) ==
  [op |-> op, ok |-> ok, path |-> path, src |-> src, key |-> key, hit |-> hit,
   invoked |-> invoked, walk |-> walk, now |-> now]
VpEnv(op) == VpOp(op, TRUE, None, Missing, NoKey, FALSE, 0, NoWalk)
\* What is kept of the operation before the latest one; of a sweep, the
\* number of files it removed and the files whose remove_file failed.
Summary(o) ==
  [op |-> o.op, ok |-> o.ok, path |-> o.path, src |-> o.src, key |-> o.key,
   invoked |-> o.invoked,
   removed |-> Cardinality({j \in 1..Len(o.walk) : o.walk[j].deleted}),
   failed |-> {o.walk[j].file.name :
                 j \in {k \in 1..Len(o.walk) :
                          o.walk[k].should_remove /\ ~o.walk[k].deleted}}]

\* video_processor.optimize_animation(&animation), called directly.
OptimizeAnimation ==
  /\ UNCHANGED notVp
  /\ ops < MaxOps
  /\ \E path \in SourcePaths, mkdir_ok \in BOOLEAN, ff \in FfmpegRuns :
       LET r == optimize_animation(cache, path, sources[path], config, mkdir_ok, ff, now)
       IN  /\ cache' = r.files
           /\ ffmpegRunning' = IF r.orphan THEN ffmpegRunning \cup {r.key} ELSE ffmpegRunning
           /\ failedKeys' = failed_after(failedKeys, r)
           /\ lastVp' = VpOp("optimize", r.ok, path, sources[path], r.key, r.hit,
                             r.invoked, NoWalk)
  /\ prevVp' = Summary(lastVp)
  /\ ops' = ops + 1
  /\ UNCHANGED <<config, sources, now>>

\* generate_cache_key(&animation.path) on its own (lines 109-131): the
\* metadata of the source is read, which fails for a missing file, and the
\* key is computed.
GenerateCacheKey ==
  /\ UNCHANGED notVp
  /\ ops < MaxOps
  /\ \E path \in SourcePaths :
       lastVp' = IF sources[path] = Missing
                   THEN VpOp("key", FALSE, path, Missing, NoKey, FALSE, 0, NoWalk)
                   ELSE VpOp("key", TRUE, path, sources[path],
                             generate_cache_key(path, sources[path], config),
                             FALSE, 0, NoWalk)
  /\ prevVp' = Summary(lastVp)
  /\ ops' = ops + 1
  /\ UNCHANGED <<config, cache, sources, now, ffmpegRunning, failedKeys>>

\* video_processor.cleanup_cache(), the directory being readable.
CleanupCache ==
  /\ UNCHANGED notVp
  /\ ops < MaxOps
  /\ \E order \in SortedOrders(cache), undeletable \in SUBSET {f.name : f \in cache} :
       LET r == cleanup_cache(cache, order, now, config, undeletable)
       IN  /\ cache' = r.files
           /\ lastVp' = VpOp("sweep", TRUE, None, Missing, NoKey, FALSE, 0, r.walk)
  /\ prevVp' = Summary(lastVp)
  /\ ops' = ops + 1
  /\ UNCHANGED <<config, sources, now, ffmpegRunning, failedKeys>>

\* video_processor.cleanup_cache() when read_dir or next_entry fails (lines
\* 143-144): the error is returned and nothing is deleted.
CleanupCacheFails ==
  /\ UNCHANGED notVp
  /\ ops < MaxOps
  /\ lastVp' = VpOp("sweep", FALSE, None, Missing, NoKey, FALSE, 0, NoWalk)
  /\ prevVp' = Summary(lastVp)
  /\ ops' = ops + 1
  /\ UNCHANGED <<config, cache, sources, now, ffmpegRunning, failedKeys>>

\* The system clock advances or is set (SystemTime is not monotonic).
ClockStep ==
  /\ UNCHANGED notVp
  /\ ops < MaxOps
  /\ \E t \in Times : t # now /\ now' = t
  /\ lastVp' = VpEnv("clock")
  /\ prevVp' = Summary(lastVp)
  /\ ops' = ops + 1
  /\ UNCHANGED <<config, cache, sources, ffmpegRunning, failedKeys>>

\* A source file is replaced, edited or removed.
TouchSource ==
  /\ UNCHANGED notVp
  /\ ops < MaxOps
  /\ \E path \in SourcePaths, meta \in SourceMetas \cup {Missing} :
       /\ sources[path] # meta
       /\ sources' = [sources EXCEPT ![path] = meta]
  /\ lastVp' = VpEnv("touch")
  /\ prevVp' = Summary(lastVp)
  /\ ops' = ops + 1
  /\ UNCHANGED <<config, cache, now, ffmpegRunning, failedKeys>>

\* An ffmpeg that outlived its timeout ends, leaving its output as `ff` says.
OrphanEnds ==
  /\ UNCHANGED notVp
  /\ \E key \in ffmpegRunning, ff \in {f \in FfmpegRuns : f.result \in {"ok", "fail"}} :
       /\ ffmpegRunning' = ffmpegRunning \ {key}
       /\ cache' = ffmpeg_writes(cache, key, ff, now)
       /\ failedKeys' = IF ff.result = "ok" /\ ff.output > 0
                          THEN failedKeys \ {key} ELSE failedKeys
  /\ lastVp' = VpEnv("orphan")
  /\ prevVp' = Summary(lastVp)
  /\ UNCHANGED <<config, sources, now, ops>>


\* -------------------------------------------------------- AnimationManager

AnimationTypes == {"Boot", "Suspend", "Throbber"}

\* The catalog load_animations builds (lines 63-136): the id of an entry is
\* its set and file name, its type follows from the file name.
CatalogIds == SourcePaths
animation_type_of(id) ==
  IF id = "a/steam_os_suspend.webm" THEN "Suspend" ELSE "Boot"
Catalog ==
  [id \in CatalogIds |->
     [path |-> id, animation_type |-> animation_type_of(id), optimized_path |-> NoKey]]

\* The configurations the manager is loaded with: the mode, the configured
\* ids (one of them of no catalog entry) and the exclusions.
\* A field the mode never reads is left as in Config::default().
ManagerConfigs ==
  {c \in [randomize_mode : {"Disabled", "PerBoot", "PerSet"},
          current_boot_animation : {None, "a/deck_startup.webm", "gone/deck_startup.webm"},
          current_suspend_animation : {None, "a/steam_os_suspend.webm"},
          shuffle_exclusions : {{}, {"a/deck_startup.webm"}, CatalogIds},
          max_animation_duration : {5}, target_width : {1280}, target_height : {720},
          video_quality : {23}, max_cache_size_mb : {500}, cache_max_age_days : {1}] :
     /\ c.randomize_mode # "Disabled" => c.current_boot_animation = None
     /\ (c.randomize_mode = "Disabled" /\ c.current_suspend_animation # None)
          => c.shuffle_exclusions = {}}

\* A plausible slip: two arms of the match exchanged.
get_steam_target_path_exchanged(anim_type) ==
  CASE anim_type = "Boot" -> "steam_os_suspend.webm"
    [] anim_type = "Suspend" -> "deck_startup.webm"
    [] anim_type = "Throbber" -> "steam_os_suspend_from_throbber.webm"

\* get_steam_target_path (lines 284-292): the file name under the override
\* directory.
get_steam_target_path(anim_type) ==
  CASE anim_type = "Boot" -> "deck_startup.webm"
    [] anim_type = "Suspend" -> "steam_os_suspend.webm"
    [] anim_type = "Throbber" -> "steam_os_suspend_from_throbber.webm"

\* What is at a target path: nothing, a plain file (the placeholder), or a
\* placeholder with a cache file bound on it.
Absent == [state |-> "absent", source |-> NoKey]
Placeholder == [state |-> "file", source |-> NoKey]
Bound(source) == [state |-> "mounted", source |-> source]

\* unmount_animation (lines 265-282) on an existing target, every outcome:
\* umount cannot be run (an error); else its status is ignored, it unbinds
\* a bound target or fails; then the target, which still exists, is removed,
\* which fails on a target still bound and may fail on a plain file.
unmount_animation(t) ==
  {[ok |-> FALSE, target |-> t, calls |-> <<>>]}
  \cup
  UNION {LET t1 == IF unbound THEN Placeholder ELSE t
         IN  {[ok |-> FALSE, target |-> t1, calls |-> <<"umount", "remove_file">>]}
             \cup (IF t1.state = "file"
                     THEN {[ok |-> TRUE, target |-> Absent,
                            calls |-> <<"umount", "remove_file">>]}
                     ELSE {})
         : unbound \in (IF t.state = "mounted" THEN BOOLEAN ELSE {FALSE})}

\* mount_animation (lines 239-263), every outcome: the unmount of an existing
\* target, the empty placeholder written, and mount --bind, which cannot be
\* run, fails, or binds the source if that file exists.
mount_animation(t, source, target_path, files) ==
  LET bind == [source |-> source, target |-> target_path]
      U == IF t.state # "absent" THEN unmount_animation(t)
           ELSE {[ok |-> TRUE, target |-> t, calls |-> <<>>]}
  IN  UNION {
        IF ~u.ok
          THEN {[ok |-> FALSE, target |-> u.target, calls |-> u.calls, binds |-> <<>>]}
          ELSE {[ok |-> FALSE, target |-> u.target,
                 calls |-> u.calls \o <<"write">>, binds |-> <<>>],
                [ok |-> FALSE, target |-> Placeholder,
                 calls |-> u.calls \o <<"write">>, binds |-> <<>>],
                [ok |-> FALSE, target |-> Placeholder,
                 calls |-> u.calls \o <<"write", "mount">>, binds |-> <<bind>>]}
               \cup (IF Exists(files, source)
                       THEN {[ok |-> TRUE, target |-> Bound(source),
                              calls |-> u.calls \o <<"write", "mount">>,
                              binds |-> <<bind>>]}
                       ELSE {})
        : u \in U}

\* The manager's state an operation works on, and what an operation reports.
MgrState ==
  [animations |-> animations, current_animations |-> current_animations,
   targets |-> targets, cache |-> cache, ffmpegRunning |-> ffmpegRunning,
   failedKeys |-> failedKeys]
Report(st, ok, failed_at, invoked, calls, binds) ==
  [st |-> st, ok |-> ok, failed_at |-> failed_at, invoked |-> invoked,
   calls |-> calls, binds |-> binds]

\* A plausible slip: the table written before the bind has reported.
apply_mount_eager(st, anim_type, animation_id, source_path, invoked) ==
  {Report([st EXCEPT !.targets[anim_type] = m.target,
                     !.current_animations[anim_type] = animation_id],
          m.ok, IF m.ok THEN None ELSE "mount", invoked, m.calls, m.binds)
   : m \in mount_animation(st.targets[anim_type], source_path,
                           get_steam_target_path(anim_type), st.cache)}

\* apply_animation from the bind on (lines 229-236), for each outcome of
\* mount_animation.
apply_mount(st, anim_type, animation_id, source_path, invoked) ==
  {IF m.ok
     THEN Report([st EXCEPT !.targets[anim_type] = m.target,
                            !.current_animations[anim_type] = animation_id],
                 TRUE, None, invoked, m.calls, m.binds)
     ELSE Report([st EXCEPT !.targets[anim_type] = m.target],
                 FALSE, "mount", invoked, m.calls, m.binds)
   : m \in mount_animation(st.targets[anim_type], source_path,
                           get_steam_target_path(anim_type), st.cache)}

\* A plausible slip: the target cleared before the asset is known to be ready.
apply_animation_unmount_first(st, anim_type, animation_id) ==
  LET st0 == [st EXCEPT !.targets[anim_type] = Absent]
  IN  IF animation_id \notin DOMAIN st.animations
        THEN {Report(st0, FALSE, "lookup", 0, <<>>, <<>>)}
      ELSE IF st.animations[animation_id].optimized_path # NoKey
        THEN apply_mount(st0, anim_type, animation_id,
                         st.animations[animation_id].optimized_path, 0)
      ELSE UNION {
             LET st1 == [st0 EXCEPT
                           !.cache = o.files,
                           !.ffmpegRunning = IF o.orphan THEN @ \cup {o.key} ELSE @,
                           !.failedKeys = failed_after(@, o)]
             IN  IF ~o.ok
                   THEN {Report(st1, FALSE, "transcode", o.invoked, <<>>, <<>>)}
                   ELSE apply_mount([st1 EXCEPT
                                       !.animations[animation_id].optimized_path = o.key],
                                    anim_type, animation_id, o.key, o.invoked)
             : o \in {optimize_animation(st.cache, st.animations[animation_id].path,
                                         sources[st.animations[animation_id].path],
                                         config, mkdir_ok, ff, now)
                      : mkdir_ok \in BOOLEAN, ff \in FfmpegRuns}}

\* apply_animation (lines 207-237), every outcome: the catalog lookup, the
\* cached path (the entry's optimized_path, else optimize_animation, whose
\* path is then recorded in the entry), and the mount.
apply_animation(st, anim_type, animation_id) ==
  IF animation_id \notin DOMAIN st.animations
    THEN {Report(st, FALSE, "lookup", 0, <<>>, <<>>)}
  ELSE IF st.animations[animation_id].optimized_path # NoKey
    THEN apply_mount(st, anim_type, animation_id,
                     st.animations[animation_id].optimized_path, 0)
  ELSE UNION {
         LET st1 == [st EXCEPT
                       !.cache = o.files,
                       !.ffmpegRunning = IF o.orphan THEN @ \cup {o.key} ELSE @,
                       !.failedKeys = failed_after(@, o)]
         IN  IF ~o.ok
               THEN {Report(st1, FALSE, "transcode", o.invoked, <<>>, <<>>)}
               ELSE apply_mount([st1 EXCEPT
                                   !.animations[animation_id].optimized_path = o.key],
                                anim_type, animation_id, o.key, o.invoked)
         : o \in {optimize_animation(st.cache, st.animations[animation_id].path,
                                     sources[st.animations[animation_id].path],
                                     config, mkdir_ok, ff, now)
                  : mkdir_ok \in BOOLEAN, ff \in FfmpegRuns}}

\* A plausible slip: the exclusion filter left out.
select_random_animation_unfiltered(anims, cfg, anim_type) ==
  LET candidates == {id \in DOMAIN anims : anims[id].animation_type = anim_type}
  IN  IF candidates = {} THEN {None} ELSE candidates

\* select_random_animation (lines 294-308): what it may return.
select_random_animation(anims, cfg, anim_type) ==
  LET candidates == {id \in DOMAIN anims :
                       /\ anims[id].animation_type = anim_type
                       /\ id \notin cfg.shuffle_exclusions}
  IN  IF candidates = {} THEN {None} ELSE candidates

\* select_random_from_set (lines 310-314).
select_random_from_set(anims, cfg, anim_type) ==
  select_random_animation(anims, cfg, anim_type)

\* The ids prepare_boot_animation may choose (lines 168-179).
boot_animation_ids(anims, cfg) ==
  CASE cfg.randomize_mode = "Disabled" -> {cfg.current_boot_animation}
    [] cfg.randomize_mode = "PerBoot" -> select_random_animation(anims, cfg, "Boot")
    [] cfg.randomize_mode = "PerSet" -> select_random_from_set(anims, cfg, "Boot")

\* The ids prepare_suspend_animation may choose (lines 191-192).
suspend_animation_ids(anims, cfg) ==
  IF cfg.current_suspend_animation # None THEN {cfg.current_suspend_animation}
  ELSE select_random_animation(anims, cfg, "Suspend")

\* A plausible slip: the apply made whether or not an id was chosen.
apply_chosen_always(st, anim_type, animation_id) ==
  {[id |-> animation_id, r |-> r] : r \in apply_animation(st, anim_type, animation_id)}

\* The two prepare functions from the chosen id on (lines 181-185, 194-198):
\* with no id nothing is applied and Ok is returned.
apply_chosen(st, anim_type, animation_id) ==
  IF animation_id = None
    THEN {[id |-> None, r |-> Report(st, TRUE, None, 0, <<>>, <<>>)]}
    ELSE {[id |-> animation_id, r |-> r] : r \in apply_animation(st, anim_type, animation_id)}

\* prepare_boot_animation (lines 165-186), every outcome with the id chosen.
prepare_boot_animation(st) ==
  UNION {apply_chosen(st, "Boot", id) : id \in boot_animation_ids(st.animations, config)}

\* prepare_suspend_animation (lines 188-199).
prepare_suspend_animation(st) ==
  UNION {apply_chosen(st, "Suspend", id) : id \in suspend_animation_ids(st.animations, config)}

\* A plausible slip: resume applying its choice as the throbber shown when
\* coming back from suspend.
prepare_resume_animation_throbber(st) ==
  UNION {apply_chosen(st, "Throbber", id) : id \in boot_animation_ids(st.animations, config)}

\* prepare_resume_animation (lines 201-205).
prepare_resume_animation(st) == prepare_boot_animation(st)

\* cleanup (lines 316-330) for the types still to visit: an existing target
\* is unmounted, whatever that returns, and cleanup returns Ok.
RECURSIVE cleanup_from(_, _)
cleanup_from(tgts, types) ==
  IF types = <<>> THEN {[targets |-> tgts, calls |-> <<>>]}
  ELSE LET ty == Head(types)
           U == IF tgts[ty].state # "absent" THEN unmount_animation(tgts[ty])
                ELSE {[ok |-> TRUE, target |-> tgts[ty], calls |-> <<>>]}
       IN  UNION {{[targets |-> rest.targets, calls |-> u.calls \o rest.calls]
                   : rest \in cleanup_from([tgts EXCEPT ![ty] = u.target], Tail(types))}
                  : u \in U}

\* A plausible slip: cleanup forgetting what it unmounted.
cleanup_forgetting(st) ==
  {Report([st EXCEPT !.targets = c.targets,
                     !.current_animations =
                        [t \in AnimationTypes |->
                           IF c.targets[t].state = "absent" THEN None ELSE @[t]]],
          TRUE, None, 0, c.calls, <<>>)
   : c \in cleanup_from(st.targets, <<"Boot", "Suspend", "Throbber">>)}

\* cleanup (lines 316-330), every outcome.
cleanup(st) ==
  {Report([st EXCEPT !.targets = c.targets], TRUE, None, 0, c.calls, <<>>)
   : c \in cleanup_from(st.targets, <<"Boot", "Suspend", "Throbber">>)}

\* maintenance (lines 332-340): cleanup_cache, its error returned.
maintenance(st) ==
  {Report(st, FALSE, "read_dir", 0, <<>>, <<>>)}
  \cup
  {Report([st EXCEPT !.cache = cleanup_cache(st.cache, order, now, config, undeletable).files],
          TRUE, None, 0, <<>>, <<>>)
   : order \in SortedOrders(st.cache), undeletable \in SUBSET {f.name : f \in st.cache}}

\* What a call of the manager leaves behind: the manager's fields, the cache
\* directory and the targets as the outcome has them, and the call recorded.
Apply(op, anim_type, outcome) ==
  /\ animations' = outcome.r.st.animations
  /\ current_animations' = outcome.r.st.current_animations
  /\ targets' = outcome.r.st.targets
  /\ cache' = outcome.r.st.cache
  /\ ffmpegRunning' = outcome.r.st.ffmpegRunning
  /\ failedKeys' = outcome.r.st.failedKeys
  /\ lastMgr' = [op |-> op, anim_type |-> anim_type, id |-> outcome.id,
                 ok |-> outcome.r.ok, failed_at |-> outcome.r.failed_at,
                 invoked |-> outcome.r.invoked, calls |-> outcome.r.calls,
                 binds |-> outcome.r.binds,
                 current_before |-> current_animations, targets_before |-> targets]
  /\ UNCHANGED <<config, sources, now, lastVp, prevVp, cfgVars>>

\* A call of the manager that is no receive from the bus.
Effect(op, anim_type, outcome) ==
  /\ Apply(op, anim_type, outcome)
  /\ UNCHANGED monVars

\* One call of a method of the manager by its owner.
Call(op, anim_type, outcome) ==
  /\ ops < MaxCalls
  /\ Effect(op, anim_type, outcome)
  /\ ops' = ops + 1
  /\ UNCHANGED mainVars

\* The handler of Starting (main.rs 90-93).
PrepareBoot ==
  \E outcome \in prepare_boot_animation(MgrState) : Call("prepare_boot", "Boot", outcome)

\* The handler of Suspending (main.rs 94-97).
PrepareSuspend ==
  \E outcome \in prepare_suspend_animation(MgrState) : Call("prepare_suspend", "Suspend", outcome)

\* The handler of Resuming (main.rs 98-101).
PrepareResume ==
  \E outcome \in prepare_resume_animation(MgrState) : Call("prepare_resume", "Boot", outcome)

\* The handler of Shutdown (main.rs 102-105).
Cleanup ==
  \E r \in cleanup(MgrState) : Call("cleanup", None, [id |-> None, r |-> r])

\* The maintenance arm (main.rs 110-112).
Maintenance ==
  \E r \in maintenance(MgrState) : Call("maintenance", None, [id |-> None, r |-> r])

NoCall ==
  [op |-> "new", anim_type |-> None, id |-> None, ok |-> TRUE, failed_at |-> None,
   invoked |-> 0, calls |-> <<>>, binds |-> <<>>,
   current_before |-> [t \in AnimationTypes |-> None],
   targets_before |-> [t \in AnimationTypes |-> Absent]]


\* -------------------------------------------------------------------- main

\* What the handler of an event may do (main.rs 89-106).
handle_event(event, st) ==
  CASE event = "Starting" -> prepare_boot_animation(st)
    [] event = "Suspending" -> prepare_suspend_animation(st)
    [] event = "Resuming" -> prepare_resume_animation(st)
    [] event = "Shutdown" -> {[id |-> None, r |-> r] : r \in cleanup(st)}

handler_of(event) ==
  CASE event = "Starting" -> "prepare_boot"
    [] event = "Suspending" -> "prepare_suspend"
    [] event = "Resuming" -> "prepare_resume"
    [] event = "Shutdown" -> "cleanup"

type_of(event) ==
  CASE event = "Starting" -> "Boot"
    [] event = "Suspending" -> "Suspend"
    [] event = "Resuming" -> "Boot"
    [] event = "Shutdown" -> None

\* The time the select of run_daemon (main.rs 87-113) stays pending: the
\* sleep it polls (line 110) comes nearer to its deadline.  Events reach the
\* bus 10 or 20 seconds apart; `now` is read in whole days and is left alone.
TimePasses ==
  /\ daemonPc = "running"
  /\ sleep_left > 0
  /\ \E d \in {10, 20} : sleep_left' = IF sleep_left > d THEN sleep_left - d ELSE 0
  /\ UNCHANGED <<daemonPc, exitCause, monVars, vpVars, mgrVars, cfgVars>>

\* run_daemon, the steam_events.recv() arm (main.rs 88-107) with an event:
\* the oldest unread event is taken and handled, and an error of the handler
\* is returned by run_daemon (the `?` of lines 92, 96, 100, 104), which ends
\* the select of main (lines 62-71).  The select is left with the handled
\* event: its sleep is dropped, and the next turn of the loop evaluates
\* tokio::time::sleep(30 s) anew (line 110).
DaemonRecv ==
  /\ daemonPc = "running"
  /\ bus # <<>>
  /\ busMissed = 0
  /\ ops < MaxCalls
  /\ \E outcome \in handle_event(Head(bus), MgrState) :
       /\ Apply(handler_of(Head(bus)), type_of(Head(bus)), outcome)
       /\ daemonPc' = IF outcome.r.ok THEN "running" ELSE "stopped"
       /\ exitCause' = IF outcome.r.ok THEN exitCause ELSE "error"
  /\ sleep_left' = SleepSecs
  /\ bus' = Tail(bus)
  /\ ops' = ops + 1
  /\ UNCHANGED <<procTable, journalPc, current_steam_pids, was_suspended, journal, fromResumeLine,
                 monitorPc, subscribed, busMissed, published, steps, lastMon>>

\* run_daemon, the steam_events.recv() arm when events were dropped for the
\* receiver: recv is Err(Lagged(n)) and moves the receiver to the oldest event
\* kept; `event?` (line 89) returns the error from run_daemon, main logs it
\* (lines 64-66) and goes on to exit.
DaemonRecvLagged ==
  /\ daemonPc = "running"
  /\ busMissed > 0
  /\ busMissed' = 0
  /\ daemonPc' = "stopped"
  /\ exitCause' = "lagged"
  /\ UNCHANGED <<procTable, journalPc, current_steam_pids, was_suspended, journal, fromResumeLine,
                 monitorPc, subscribed, bus, published, steps, lastMon>>
  /\ UNCHANGED <<vpVars, mgrVars, sleep_left, cfgVars>>

\* run_daemon, the sleep(30 s) arm (main.rs 110-112) once the sleep has
\* elapsed, with maintenance returning Ok; the next turn of the loop sleeps
\* anew.
DaemonMaintenance ==
  /\ daemonPc = "running"
  /\ sleep_left = 0
  /\ \E r \in {m \in maintenance(MgrState) : m.ok} :
       Effect("maintenance", None, [id |-> None, r |-> r])
  /\ sleep_left' = SleepSecs
  /\ UNCHANGED <<ops, daemonPc, exitCause>>

\* run_daemon, the sleep(30 s) arm with maintenance returning an error: the
\* `?` of line 111 returns it, main logs it (lines 64-66) and goes on to exit.
DaemonMaintenanceFails ==
  /\ daemonPc = "running"
  /\ sleep_left = 0
  /\ \E r \in {m \in maintenance(MgrState) : ~m.ok} :
       Effect("maintenance", None, [id |-> None, r |-> r])
  /\ daemonPc' = "stopped"
  /\ exitCause' = "error"
  /\ UNCHANGED <<ops, sleep_left>>

\* main, the signal::ctrl_c() arm (main.rs 68-70); main then notifies systemd
\* and returns (lines 73-77).
DaemonCtrlC ==
  /\ daemonPc = "running"
  /\ daemonPc' = "stopped"
  /\ exitCause' = "signal"
  /\ UNCHANGED <<monVars, vpVars, mgrVars, sleep_left, cfgVars>>

\* ------------------------------------------------------------------ Config

\* Config values a caller may hold and save: every field of the struct is
\* public, so the numeric settings need not lie in the ranges
\* validate_and_fix accepts.  Fields that take part in no check of
\* validate_and_fix are as in Config::default(), but for the mode and the
\* configured boot animation.
AnyConfigs ==
  [randomize_mode : {"Disabled", "PerBoot", "PerSet"},
   current_boot_animation : {None, "a/deck_startup.webm"},
   current_suspend_animation : {None}, shuffle_exclusions : {{}},
   max_animation_duration : {0, 2, 5, 30, 45}, target_width : {0, 1280},
   target_height : {0, 720}, video_quality : {5, 10, 23, 30, 50, 60},
   max_cache_size_mb : {0, 500}, cache_max_age_days : {30}]

\* Config::default() (config.rs 58-98).
default_config ==
  [randomize_mode |-> "Disabled", current_boot_animation |-> None,
   current_suspend_animation |-> None, shuffle_exclusions |-> {},
   max_animation_duration |-> 5, target_width |-> 1280, target_height |-> 720,
   video_quality |-> 23, max_cache_size_mb |-> 500, cache_max_age_days |-> 30]

\* #[serde(rename = ...)] of RandomizeMode (config.rs 48-56): the string a
\* variant is written as.
rename(mode) ==
  CASE mode = "Disabled" -> "disabled"
    [] mode = "PerBoot" -> "per_boot"
    [] mode = "PerSet" -> "per_set"

\* The variant a string is read as, None when it names no variant.
variant_of(str) ==
  CASE str = "disabled" -> "Disabled"
    [] str = "per_boot" -> "PerBoot"
    [] str = "per_set" -> "PerSet"
    [] OTHER -> None

\* A TOML document is a function from its keys to their values; a value
\* carries its TOML type.
TomlString(v) == [type |-> "string", v |-> v]
TomlInteger(v) == [type |-> "integer", v |-> v]
TomlArray(v) == [type |-> "array", v |-> v]
\* A Duration is written as the table of its secs and nanos.
TomlTable(secs) == [type |-> "table", v |-> [secs |-> secs, nanos |-> 0]]

\* toml::to_string_pretty(self) (config.rs 129-130) under the derived
\* Serialize (config.rs 8-46): one key per field, an Option that is None
\* written as no key at all.
to_string_pretty(c) ==
  LET options == {key \in {"current_boot_animation", "current_suspend_animation"} :
                    c[key] # None}
      keys == options \cup {"randomize_mode", "shuffle_exclusions",
                            "max_animation_duration", "target_width", "target_height",
                            "video_quality", "max_cache_size_mb", "cache_max_age_days"}
  IN [key \in keys |->
        CASE key \in options -> TomlString(c[key])
          [] key = "randomize_mode" -> TomlString(rename(c.randomize_mode))
          [] key = "shuffle_exclusions" -> TomlArray(c.shuffle_exclusions)
          [] key = "max_animation_duration" -> TomlTable(c.max_animation_duration)
          [] OTHER -> TomlInteger(c[key])]

\* A path holds no file, or a file with a document.
NoFile == [exists |-> FALSE, doc |-> <<>>]
File(doc) == [exists |-> TRUE, doc |-> doc]
\* What is left at the config path by an fs::write that fails part-way: the
\* file truncated, no key written.
Truncated == File(<<>>)

\* toml::from_str(&content) (config.rs 115-116) under the derived
\* Deserialize: Err when a field that is no Option has no key or a value of
\* the wrong type, otherwise the Config the keys spell (`config` is read only when ok).
from_str(doc) ==
  LET has(key, type) == key \in DOMAIN doc /\ doc[key].type = type
      get(key) == doc[key].v
      option(key) == IF has(key, "string") THEN get(key) ELSE None
      complete == /\ has("randomize_mode", "string")
                  /\ has("shuffle_exclusions", "array")
                  /\ has("max_animation_duration", "table")
                  /\ \A key \in {"target_width", "target_height", "video_quality",
                                 "max_cache_size_mb", "cache_max_age_days"} :
                       has(key, "integer")
  IN IF ~complete \/ variant_of(get("randomize_mode")) = None
     THEN [ok |-> FALSE, config |-> default_config]
     ELSE [ok |-> TRUE,
           config |-> [randomize_mode |-> variant_of(get("randomize_mode")),
                       current_boot_animation |-> option("current_boot_animation"),
                       current_suspend_animation |-> option("current_suspend_animation"),
                       shuffle_exclusions |-> get("shuffle_exclusions"),
                       max_animation_duration |-> get("max_animation_duration").secs,
                       target_width |-> get("target_width"),
                       target_height |-> get("target_height"),
                       video_quality |-> get("video_quality"),
                       max_cache_size_mb |-> get("max_cache_size_mb"),
                       cache_max_age_days |-> get("cache_max_age_days")]]

\* validate_and_fix with a quality the encoder takes as it is.
validate_and_fix_quality_kept(c) ==
  LET a == IF c.max_animation_duration = 0
           THEN [c EXCEPT !.max_animation_duration = 5] ELSE c
      b == IF a.max_animation_duration > 30
           THEN [a EXCEPT !.max_animation_duration = 30] ELSE a
      e == IF b.target_width = 0 \/ b.target_height = 0
           THEN [b EXCEPT !.target_width = 1280, !.target_height = 720] ELSE b
  IN IF e.max_cache_size_mb = 0 THEN [e EXCEPT !.max_cache_size_mb = 500] ELSE e

\* validate_and_fix (config.rs 139-183) once its directories exist: the
\* numeric settings outside their ranges are replaced (lines 155-180).
validate_and_fix(c) ==
  LET a == IF c.max_animation_duration = 0
           THEN [c EXCEPT !.max_animation_duration = 5] ELSE c
      b == IF a.max_animation_duration > 30
           THEN [a EXCEPT !.max_animation_duration = 30] ELSE a
      d == IF b.video_quality < 10 \/ b.video_quality > 50
           THEN [b EXCEPT !.video_quality = 23] ELSE b
      e == IF d.target_width = 0 \/ d.target_height = 0
           THEN [d EXCEPT !.target_width = 1280, !.target_height = 720] ELSE d
  IN IF e.max_cache_size_mb = 0 THEN [e EXCEPT !.max_cache_size_mb = 500] ELSE e

\* Config::save (config.rs 123-137): the outcomes [ok, file] of writing self
\* to a path that holds `file`.  create_dir_all (line 126) may fail, which
\* leaves the file alone; fs::write (line 132) may fail before or after it
\* truncated the file.
save(c, file) ==
  {[ok |-> TRUE, file |-> File(to_string_pretty(c))],
   [ok |-> FALSE, file |-> file],
   [ok |-> FALSE, file |-> Truncated]}

\* Config::load (config.rs 102-121) from a path that holds `file`: the
\* outcomes [config, file] that are Ok(config), and the files an Err leaves.
\* A missing file is replaced by the saved default (lines 103-108); a file is
\* read (line 110, which may fail), parsed (line 115) and validated, and
\* validate_and_fix fails when one of its directories cannot be created
\* (lines 141-153).
load(file) ==
  IF ~file.exists
  THEN [ok |-> {[config |-> default_config, file |-> s.file]
                : s \in {o \in save(default_config, file) : o.ok}},
        err |-> {s.file : s \in {o \in save(default_config, file) : ~o.ok}}]
  ELSE [ok |-> IF from_str(file.doc).ok
               THEN {[config |-> validate_and_fix(from_str(file.doc).config),
                      file |-> file]}
               ELSE {},
        err |-> {file}]

\* original_config.save(&config_path) by the holder of a Config.  `saved` and
\* `loaded` hold the Config a successful call saved or returned, if any.
ConfigSave ==
  /\ \E s \in save(config, config_file) :
       /\ config_file' = s.file
       /\ lastCfg' = [op |-> "save", ok |-> s.ok,
                      saved |-> IF s.ok THEN {config} ELSE {}, loaded |-> {}]
  /\ UNCHANGED <<config, cache, sources, now, ffmpegRunning, failedKeys, ops,
                 lastVp, prevVp>>
  /\ UNCHANGED <<monVars, mgrVars, mainVars>>

\* Config::load(&config_path): the holder goes on with the Config returned.
\* `saved` is kept from the save the file was written by.
ConfigLoad ==
  /\ \/ \E l \in load(config_file).ok :
          /\ config_file' = l.file
          /\ config' = l.config
          /\ lastCfg' = [op |-> "load", ok |-> TRUE,
                         saved |-> IF lastCfg.op = "save" THEN lastCfg.saved ELSE {},
                         loaded |-> {l.config}]
     \/ \E file \in load(config_file).err :
          /\ config_file' = file
          /\ config' = config
          /\ lastCfg' = [op |-> "load", ok |-> FALSE,
                         saved |-> IF lastCfg.op = "save" THEN lastCfg.saved ELSE {},
                         loaded |-> {}]
  /\ UNCHANGED <<cache, sources, now, ffmpegRunning, failedKeys, ops, lastVp, prevVp>>
  /\ UNCHANGED <<monVars, mgrVars, mainVars>>

\* ------------------------------------------------------ the specifications

\* The detector at rest, for the specifications of the other components.
IdleMonitor ==
  /\ procTable = [p \in Pids |-> "absent"]
  /\ journalPc = "not_started"
  /\ current_steam_pids = {}
  /\ was_suspended = FALSE
  /\ journal = <<>>
  /\ fromResumeLine = <<>>
  /\ monitorPc = "not_started"
  /\ subscribed = FALSE
  /\ bus = <<>>
  /\ busMissed = 0
  /\ published = <<>>
  /\ steps = 0
  /\ lastMon = [op |-> "new", prevPids |-> {}, prevSuspended |-> FALSE,
                event |-> None, emitted |-> <<>>]

\* The cache store at rest, for the specifications of the other components.
IdleCache ==
  /\ config \in {c \in CacheConfigs : c.max_cache_size_mb = 500 /\ c.cache_max_age_days = 30}
  /\ cache = {}
  /\ sources = [p \in SourcePaths |-> [len |-> 1 * MB, modified |-> 0]]
  /\ now = 0
  /\ ffmpegRunning = {}
  /\ failedKeys = {}
  /\ ops = 0
  /\ lastVp = VpEnv("new")
  /\ prevVp = Summary(VpEnv("new"))

\* The manager at rest, for the specifications of the other components.
IdleManager ==
  /\ animations = Catalog
  /\ current_animations = [t \in AnimationTypes |-> None]
  /\ targets = [t \in AnimationTypes |-> Absent]
  /\ lastMgr = NoCall

\* No main: a component driven on its own.
NoMain ==
  /\ daemonPc = "none"
  /\ exitCause = None
  /\ sleep_left = None

\* No configuration file written or read by the run: the Config is as loaded.
IdleConfig ==
  /\ config_file = NoFile
  /\ lastCfg = [op |-> "new", ok |-> TRUE, saved |-> {}, loaded |-> {}]

\* SteamMonitor::new (lines 27-36), with or without a subscriber, and
\* start_monitoring entered with the reader task spawned (lines 43-44).
InitMonitor ==
  /\ procTable \in [Pids -> ProcStates]
  /\ journalPc = "running"
  /\ current_steam_pids = {}
  /\ was_suspended = FALSE
  /\ journal = <<>>
  /\ fromResumeLine = <<>>
  /\ monitorPc = "running"
  /\ subscribed \in BOOLEAN
  /\ bus = <<>>
  /\ busMissed = 0
  /\ published = <<>>
  /\ steps = 0
  /\ lastMon = [op |-> "new", prevPids |-> {}, prevSuspended |-> FALSE,
                event |-> None, emitted |-> <<>>]
  /\ IdleCache
  /\ IdleManager
  /\ NoMain
  /\ IdleConfig

NextMonitor ==
  \/ PollTick
  \/ PollFails
  \/ RecvJournal
  \/ RecvJournalClosed
  \/ JournalLine
  \/ JournalEnds
  \/ ProcChange

SpecMonitor == InitMonitor /\ [][NextMonitor]_vars

\* VideoProcessor::new (lines 18-25) over an empty cache directory, and its
\* operations called in any order while the clock, the source files and the
\* ffmpeg processes left running go their own way.
InitCache ==
  /\ IdleCache
  /\ IdleMonitor
  /\ IdleManager
  /\ NoMain
  /\ IdleConfig

NextCache ==
  \/ OptimizeAnimation
  \/ CleanupCache
  \/ CleanupCacheFails
  \/ ClockStep
  \/ TouchSource
  \/ OrphanEnds

SpecCache == InitCache /\ [][NextCache]_vars

\* VideoProcessor::new (lines 18-25) over a cache directory that holds what
\* earlier runs left in it, for any budget, and the sweep run at any time.
InitSweep ==
  /\ config \in CacheConfigs
  /\ cache \in {c \in SUBSET Leftovers : IsDirectory(c)}
  /\ sources = [p \in SourcePaths |-> [len |-> 1 * MB, modified |-> 0]]
  /\ now \in {t \in Times : \A f \in cache : f.modified <= t}
  /\ ffmpegRunning = {}
  /\ failedKeys = {}
  /\ ops = 0
  /\ lastVp = VpEnv("new")
  /\ prevVp = Summary(VpEnv("new"))
  /\ IdleMonitor
  /\ IdleManager
  /\ NoMain
  /\ IdleConfig

NextSweep ==
  \/ CleanupCache
  \/ CleanupCacheFails
  \/ ClockStep

SpecSweep == InitSweep /\ [][NextSweep]_vars

\* AnimationManager::new (animation.rs 40-61) over an empty cache and an
\* empty override directory, and its methods called in any order while the
\* clock, the source files and the ffmpeg processes left running go their way.
InitManager ==
  /\ config \in ManagerConfigs
  /\ cache = {}
  /\ sources = [p \in SourcePaths |-> [len |-> 1 * MB, modified |-> 0]]
  /\ now = 0
  /\ ffmpegRunning = {}
  /\ failedKeys = {}
  /\ ops = 0
  /\ lastVp = VpEnv("new")
  /\ prevVp = Summary(VpEnv("new"))
  /\ IdleMonitor
  /\ animations = Catalog
  /\ current_animations = [t \in AnimationTypes |-> None]
  /\ targets = [t \in AnimationTypes |-> Absent]
  /\ lastMgr = NoCall
  /\ NoMain
  /\ IdleConfig

NextManager ==
  \/ PrepareBoot
  \/ PrepareSuspend
  \/ PrepareResume
  \/ Cleanup
  \/ Maintenance

SpecManager == InitManager /\ [][NextManager]_vars

\* main once startup succeeded (main.rs 50-59) and run_daemon subscribed
\* (line 84): the configuration loaded, the manager and the monitor
\* constructed, the cache directory holding what earlier runs left in it.
\* The monitor is constructed and subscribed to, and never started.
InitDaemon ==
  /\ config \in {c \in CacheConfigs : c.max_cache_size_mb = 35 /\ c.cache_max_age_days = 1}
  /\ cache \in {c \in SUBSET Leftovers : IsDirectory(c) /\ \A f \in c : f.modified = 0}
  /\ sources = [p \in SourcePaths |-> [len |-> 1 * MB, modified |-> 0]]
  /\ now = 0
  /\ ffmpegRunning = {}
  /\ failedKeys = {}
  /\ ops = 0
  /\ lastVp = VpEnv("new")
  /\ prevVp = Summary(VpEnv("new"))
  /\ procTable = [p \in Pids |-> "absent"]
  /\ journalPc = "not_started"
  /\ current_steam_pids = {}
  /\ was_suspended = FALSE
  /\ journal = <<>>
  /\ fromResumeLine = <<>>
  /\ monitorPc = "not_started"
  /\ subscribed = TRUE
  /\ bus = <<>>
  /\ busMissed = 0
  /\ published = <<>>
  /\ steps = 0
  /\ lastMon = [op |-> "new", prevPids |-> {}, prevSuspended |-> FALSE,
                event |-> None, emitted |-> <<>>]
  /\ animations = Catalog
  /\ current_animations = [t \in AnimationTypes |-> None]
  /\ targets = [t \in AnimationTypes |-> Absent]
  /\ lastMgr = NoCall
  /\ daemonPc = "running"
  /\ exitCause = None
  /\ sleep_left = SleepSecs
  /\ IdleConfig

NextDaemon ==
  \/ TimePasses
  \/ DaemonMaintenance
  \/ DaemonMaintenanceFails
  \/ DaemonCtrlC
  \/ ProcChange
  \/ ClockStep

\* The dispatch loop is a scheduled task: a received event is handled and
\* the sleep arm is taken when it stays ready. Nothing obliges read_dir to
\* fail, so the failing sweep carries no fairness.
SpecDaemon ==
  /\ InitDaemon
  /\ [][NextDaemon]_vars
  /\ WF_vars(TimePasses)
  /\ WF_vars(DaemonRecv)
  /\ WF_vars(DaemonMaintenance)

\* VideoProcessor::new (lines 18-25) with each of the transcoding settings a
\* configuration may carry, and generate_cache_key called while the source
\* files change.
InitKey ==
  /\ config \in KeyConfigs
  /\ cache = {}
  /\ sources = [p \in SourcePaths |-> [len |-> 1 * MB, modified |-> 0]]
  /\ now = 0
  /\ ffmpegRunning = {}
  /\ failedKeys = {}
  /\ ops = 0
  /\ lastVp = VpEnv("new")
  /\ prevVp = Summary(VpEnv("new"))
  /\ IdleMonitor
  /\ IdleManager
  /\ NoMain
  /\ IdleConfig

NextKey ==
  \/ GenerateCacheKey
  \/ TouchSource

SpecKey == InitKey /\ [][NextKey]_vars

\* The events a poller publishes as the target process comes and goes n
\* times: Starting and Shutdown in turn.
Alternating(n) == [i \in 1..n |-> IF i % 2 = 1 THEN "Starting" ELSE "Shutdown"]

\* The dispatch loop of run_daemon (main.rs 84-107) on a bus that is fed: the
\* monitor it subscribed to is polling (start_monitoring, steam_monitor.rs
\* 46-50) and the loop comes back from a handler to find no event, one event
\* short of a full buffer, or a full buffer unread. (run_daemon itself owns
\* the monitor and never calls start_monitoring: see SpecDaemon.)
InitDispatch ==
  /\ config \in {c \in ManagerConfigs :
                   /\ c.randomize_mode = "Disabled"
                   /\ c.current_boot_animation = "a/deck_startup.webm"
                   /\ c.current_suspend_animation = None
                   /\ c.shuffle_exclusions = {}}
  /\ cache = {}
  /\ sources = [p \in SourcePaths |-> [len |-> 1 * MB, modified |-> 0]]
  /\ now = 0
  /\ ffmpegRunning = {}
  /\ failedKeys = {}
  /\ ops = 0
  /\ lastVp = VpEnv("new")
  /\ prevVp = Summary(VpEnv("new"))
  /\ \E n \in {0, BusCap - 1, BusCap} :
       /\ bus = Alternating(n)
       /\ published = Alternating(n)
       /\ current_steam_pids = IF n % 2 = 1 THEN {101} ELSE {}
       /\ procTable = [p \in Pids |-> IF n % 2 = 1 /\ p = 101 THEN "steam" ELSE "absent"]
  /\ journalPc = "running"
  /\ was_suspended = FALSE
  /\ journal = <<>>
  /\ fromResumeLine = <<>>
  /\ monitorPc = "running"
  /\ subscribed = TRUE
  /\ busMissed = 0
  /\ steps = 0
  /\ lastMon = [op |-> "new", prevPids |-> {}, prevSuspended |-> FALSE,
                event |-> None, emitted |-> <<>>]
  /\ animations = Catalog
  /\ current_animations = [t \in AnimationTypes |-> None]
  /\ targets = [t \in AnimationTypes |-> Absent]
  /\ lastMgr = NoCall
  /\ daemonPc = "running"
  /\ exitCause = None
  /\ sleep_left = SleepSecs
  /\ IdleConfig

NextDispatch ==
  \/ PollTick
  \/ ProcChange
  \/ DaemonRecv
  \/ DaemonRecvLagged
  \/ DaemonCtrlC

SpecDispatch == InitDispatch /\ [][NextDispatch]_vars

\* run_daemon (main.rs 84-114) with both arms of its select live: the
\* monitor it subscribed to is polling and publishes as the target process
\* comes and goes, the sleep runs down between events, and the clock moves
\* on.  The configuration is Disabled with a configured boot animation and a
\* maximal age of one day.
InitLoop ==
  /\ config \in {c \in ManagerConfigs :
                   /\ c.randomize_mode = "Disabled"
                   /\ c.current_boot_animation = "a/deck_startup.webm"
                   /\ c.current_suspend_animation = None
                   /\ c.shuffle_exclusions = {}}
  /\ cache = {}
  /\ sources = [p \in SourcePaths |-> [len |-> 1 * MB, modified |-> 0]]
  /\ now = 0
  /\ ffmpegRunning = {}
  /\ failedKeys = {}
  /\ ops = 0
  /\ lastVp = VpEnv("new")
  /\ prevVp = Summary(VpEnv("new"))
  /\ procTable = [p \in Pids |-> "absent"]
  /\ journalPc = "running"
  /\ current_steam_pids = {}
  /\ was_suspended = FALSE
  /\ journal = <<>>
  /\ fromResumeLine = <<>>
  /\ monitorPc = "running"
  /\ subscribed = TRUE
  /\ bus = <<>>
  /\ busMissed = 0
  /\ published = <<>>
  /\ steps = 0
  /\ lastMon = [op |-> "new", prevPids |-> {}, prevSuspended |-> FALSE,
                event |-> None, emitted |-> <<>>]
  /\ animations = Catalog
  /\ current_animations = [t \in AnimationTypes |-> None]
  /\ targets = [t \in AnimationTypes |-> Absent]
  /\ lastMgr = NoCall
  /\ daemonPc = "running"
  /\ exitCause = None
  /\ sleep_left = SleepSecs
  /\ IdleConfig

NextLoop ==
  \/ PollTick
  \/ ProcChange
  \/ TimePasses
  \/ ClockStep
  \/ DaemonRecv
  \/ DaemonMaintenance
  \/ DaemonMaintenanceFails
  \/ DaemonCtrlC

SpecLoop == InitLoop /\ [][NextLoop]_vars

\* A holder of any Config value and a config path that holds no file yet:
\* the value is saved and loaded in any order (config.rs 278-292).
InitConfig ==
  /\ config \in AnyConfigs
  /\ cache = {}
  /\ sources = [p \in SourcePaths |-> [len |-> 1 * MB, modified |-> 0]]
  /\ now = 0
  /\ ffmpegRunning = {}
  /\ failedKeys = {}
  /\ ops = 0
  /\ lastVp = VpEnv("new")
  /\ prevVp = Summary(VpEnv("new"))
  /\ IdleMonitor
  /\ IdleManager
  /\ NoMain
  /\ IdleConfig

NextConfig ==
  \/ ConfigSave
  \/ ConfigLoad

SpecConfig == InitConfig /\ [][NextConfig]_vars

\* --------------------------------------------------------------- the claims

RECURSIVE Count(_, _)
Count(seq, e) ==
  IF seq = <<>> THEN 0
  ELSE (IF Head(seq) = e THEN 1 ELSE 0) + Count(Tail(seq), e)

\* C1: a poll tick publishes Starting exactly once when the previous pid set
\* was empty and the new one is not, Shutdown exactly once when the previous
\* set was not empty and the new one is, and nothing on any other tick; so over
\* the whole run the Startings exceed the Shutdowns by one exactly while the
\* pid set is non-empty.
C1_EdgeEvents ==
  /\ lastMon.op = "poll" =>
       lastMon.emitted =
         (IF lastMon.prevPids = {} /\ current_steam_pids # {} THEN <<"Starting">>
          ELSE IF lastMon.prevPids # {} /\ current_steam_pids = {} THEN <<"Shutdown">>
          ELSE <<>>)
  /\ Count(published, "Starting") - Count(published, "Shutdown")
       = (IF current_steam_pids # {} THEN 1 ELSE 0)

\* C1 witness: after a Starting and a Shutdown were published, a tick changes
\* the membership of a non-empty set and publishes nothing.
C1_Witness ==
  /\ lastMon.op = "poll"
  /\ lastMon.prevPids # {}
  /\ current_steam_pids # {}
  /\ lastMon.prevPids # current_steam_pids
  /\ lastMon.emitted = <<>>
  /\ Count(published, "Shutdown") = 1
  /\ Count(published, "Starting") = 2

\* The last position of e in seq, 0 when it is not there.
LastIndex(seq, e) ==
  LET S == {i \in 1..Len(seq) : seq[i] = e}
  IN  IF S = {} THEN 0 ELSE CHOOSE i \in S : \A j \in S : j <= i

\* C2: Resuming is published only when was_suspended is true, that is, only
\* after a Suspending that no later Resuming consumed; publishing it clears
\* the flag, and a resume marker met with the flag clear publishes nothing.
C2_ResumeGuarded ==
  /\ was_suspended = (LastIndex(published, "Suspending") > LastIndex(published, "Resuming"))
  /\ (lastMon.op = "journal" /\ lastMon.event = "Resume") =>
        /\ lastMon.prevSuspended => (lastMon.emitted = <<"Resuming">> /\ ~was_suspended)
        /\ ~lastMon.prevSuspended => (lastMon.emitted = <<>> /\ ~was_suspended)
  /\ \A i \in 1..Len(published) :
        published[i] = "Resuming" =>
          \E j \in 1..(i - 1) :
             /\ published[j] = "Suspending"
             /\ \A k \in (j + 1)..(i - 1) : published[k] # "Resuming"

\* C2 witness: a Resuming was published, and then a second resume marker
\* with no suspend marker in between was handled and published nothing.
C2_Witness ==
  /\ lastMon.op = "journal"
  /\ lastMon.event = "Resume"
  /\ ~lastMon.prevSuspended
  /\ lastMon.emitted = <<>>
  /\ Len(published) >= 2
  /\ published[Len(published)] = "Resuming"

\* C3: while the daemon runs its detector is active and feeds the bus: once
\* a target process is in the process table, a Starting is published and the
\* dispatch loop runs the boot preparation (unless the process goes away or
\* the daemon stops first).
C3_ProcessLeadsToBoot ==
  (daemonPc = "running" /\ MatchingPids(procTable) # {})
    ~> (\/ (Count(published, "Starting") > 0 /\ lastMgr.op = "prepare_boot")
        \/ MatchingPids(procTable) = {}
        \/ daemonPc = "stopped")

PrepareOps == {"prepare_boot", "prepare_suspend", "prepare_resume"}

\* C4: when the catalog lookup or the transcoding step of an apply fails,
\* the apply has made no umount, remove, placeholder or bind call, and
\* current_animations and every target are as they were before it.
C4_FailedPreparationTouchesNothing ==
  lastMgr.failed_at \in {"lookup", "transcode"} =>
    /\ lastMgr.calls = <<>>
    /\ lastMgr.binds = <<>>
    /\ current_animations = lastMgr.current_before
    /\ targets = lastMgr.targets_before

\* C4 witness: a transcode run for the chosen id failed while the target of
\* the type had another animation bound, which is still bound.
C4_Witness ==
  /\ lastMgr.failed_at = "transcode"
  /\ lastMgr.invoked = 1
  /\ lastMgr.targets_before[lastMgr.anim_type].state = "mounted"
  /\ targets[lastMgr.anim_type].state = "mounted"

\* C5: current_animations is written only by an apply and only once the
\* bind of that type's target has succeeded, with the id whose cached path
\* was bound; a failed apply, cleanup and maintenance leave it unchanged.
C5_TableFollowsBind ==
  /\ (lastMgr.op \in PrepareOps /\ lastMgr.id # None /\ lastMgr.ok) =>
        /\ current_animations =
             [lastMgr.current_before EXCEPT ![lastMgr.anim_type] = lastMgr.id]
        /\ lastMgr.binds =
             <<[source |-> animations[lastMgr.id].optimized_path,
                target |-> get_steam_target_path(lastMgr.anim_type)]>>
        /\ targets[lastMgr.anim_type] = Bound(animations[lastMgr.id].optimized_path)
  /\ ~(lastMgr.op \in PrepareOps /\ lastMgr.id # None /\ lastMgr.ok) =>
        current_animations = lastMgr.current_before

\* C5 witness: the bind of an apply was run and failed, for an id that was
\* not the active one of its type.
C5_Witness ==
  /\ lastMgr.failed_at = "mount"
  /\ Len(lastMgr.binds) = 1
  /\ lastMgr.current_before[lastMgr.anim_type] # lastMgr.id

\* C6: no runtime failure ends the daemon: after a handler or a maintenance
\* sweep has failed the dispatch loop is still running (until a shutdown
\* signal stops it).
C6_FailureNotFatal ==
  ~lastMgr.ok => (daemonPc = "running" \/ exitCause = "signal")

\* C7: handling Starting in Disabled mode with current_boot_animation an id
\* of the catalog, transcoding and mounting succeeding, makes exactly one
\* bind call, of the cached path of that id onto deck_startup.webm of the
\* override directory, and leaves that id the active Boot animation.
C7_StartingBindsConfiguredBoot ==
  (/\ lastMgr.op = "prepare_boot"
   /\ config.randomize_mode = "Disabled"
   /\ config.current_boot_animation \in DOMAIN animations
   /\ lastMgr.ok)
  => LET id == config.current_boot_animation
     IN  /\ lastMgr.id = id
         /\ animations[id].optimized_path # NoKey
         /\ animations[id].optimized_path.path = animations[id].path
         /\ lastMgr.binds = <<[source |-> animations[id].optimized_path,
                               target |-> "deck_startup.webm"]>>
         /\ Count(lastMgr.calls, "mount") = 1
         /\ current_animations["Boot"] = id

\* C7 witness: such a Starting was handled, with the transcoder run for it.
C7_Witness ==
  /\ lastMgr.op = "prepare_boot"
  /\ config.randomize_mode = "Disabled"
  /\ config.current_boot_animation \in DOMAIN animations
  /\ lastMgr.ok
  /\ lastMgr.invoked = 1

\* C8: of two consecutive optimize_animation calls for one animation whose
\* source file is unchanged (the settings never change), the first having
\* returned Ok, the second is a cache hit: it returns Ok with the same cached
\* path and runs no transcoder.
C8_SecondCallHits ==
  (/\ lastVp.op = "optimize"
   /\ prevVp.op = "optimize"
   /\ prevVp.ok
   /\ prevVp.path = lastVp.path
   /\ prevVp.src = lastVp.src)
  => (/\ lastVp.ok
      /\ lastVp.hit
      /\ lastVp.invoked = 0
      /\ lastVp.key = prevVp.key)

\* C8 witness: the first call transcoded and the second call hit its output.
C8_Witness ==
  /\ lastVp.op = "optimize"
  /\ prevVp.op = "optimize"
  /\ prevVp.ok
  /\ prevVp.invoked = 1
  /\ prevVp.path = lastVp.path
  /\ prevVp.src = lastVp.src
  /\ lastVp.hit

\* C9: a failed transcode never becomes a cache entry: optimize_animation
\* does not return as a cache hit the output of a key whose latest transcode
\* failed (non-zero exit, timeout, or missing or empty output).
C9_FailedNeverHit ==
  (lastVp.op = "optimize" /\ lastVp.hit) => lastVp.key \notin failedKeys

RECURSIVE DeletedSize(_, _)
\* The sizes of the files the first n inspections of a walk deleted.
DeletedSize(walk, n) ==
  IF n = 0 THEN 0
  ELSE DeletedSize(walk, n - 1) + (IF walk[n].deleted THEN walk[n].file.size ELSE 0)

\* C10: cleanup_cache inspects the files in ascending modification-time
\* order, the running total being the total size less the sizes deleted so
\* far, and deletes a file exactly when, as it is inspected, the running
\* total exceeds max_cache_size_bytes or the file's age exceeds max_age
\* (stated for the sweeps in which no remove_file fails).
C10_SweepDeletesExactly ==
  (/\ lastVp.op = "sweep"
   /\ lastVp.ok
   /\ \A i \in 1..Len(lastVp.walk) :
         lastVp.walk[i].should_remove => lastVp.walk[i].deleted)
  => LET w == lastVp.walk
         before == cache \cup {w[i].file : i \in 1..Len(w)}
     IN  /\ \A i \in 1..Len(w), j \in 1..Len(w) :
               i < j => w[i].file.modified <= w[j].file.modified
         /\ \A i \in 1..Len(w) :
               w[i].total_size = SumSizes(before) - DeletedSize(w, i - 1)
         /\ \A i \in 1..Len(w) :
               w[i].deleted <=>
                 \/ w[i].total_size > max_cache_size(config)
                 \/ lastVp.now - w[i].file.modified > max_age(config)

\* C11 as stated: of two cleanup_cache runs in a row, with no file added and
\* the clock unchanged between them, the second deletes nothing.
C11_SecondSweepDeletesNothing ==
  (/\ lastVp.op = "sweep" /\ lastVp.ok
   /\ prevVp.op = "sweep" /\ prevVp.ok)
  => \A i \in 1..Len(lastVp.walk) : ~lastVp.walk[i].deleted

\* C11: of two cleanup_cache runs in a row, with no file added and the clock
\* unchanged between them, the second deletes no file other than those the
\* first run tried to remove and could not (its remove_file failed).
C11_SecondSweepDeletesOnlyRetries ==
  (/\ lastVp.op = "sweep" /\ lastVp.ok
   /\ prevVp.op = "sweep" /\ prevVp.ok)
  => \A i \in 1..Len(lastVp.walk) :
       lastVp.walk[i].deleted => lastVp.walk[i].file.name \in prevVp.failed

\* C11 witness: the first run removed a file with no removal failing, and the
\* second run inspected the files that were left and removed none.
C11_Witness ==
  /\ lastVp.op = "sweep" /\ lastVp.ok
  /\ prevVp.op = "sweep" /\ prevVp.ok
  /\ prevVp.removed > 0
  /\ prevVp.failed = {}
  /\ Len(lastVp.walk) > 0
  /\ \A i \in 1..Len(lastVp.walk) : ~lastVp.walk[i].deleted

\* The latest call of the manager chose its id by select_random_animation
\* (animation.rs 172-178, 192).
DrewAtRandom ==
  \/ lastMgr.op \in {"prepare_boot", "prepare_resume"} /\ config.randomize_mode # "Disabled"
  \/ lastMgr.op = "prepare_suspend" /\ config.current_suspend_animation = None

\* C12: select_random_animation, and select_random_from_set which delegates
\* to it, never return an id of shuffle_exclusions, for every animation type
\* and in every draw a handler makes.
C12_ExclusionsRespected ==
  /\ \A t \in AnimationTypes :
       /\ select_random_animation(animations, config, t) \cap config.shuffle_exclusions = {}
       /\ select_random_from_set(animations, config, t) \cap config.shuffle_exclusions = {}
  /\ DrewAtRandom => lastMgr.id \notin config.shuffle_exclusions

\* C12 witness: a second draw in a row, with an entry of the drawn type in
\* the exclusions, returned the entry that is not excluded.
C12_Witness ==
  /\ ops = 2
  /\ lastMgr.op = "prepare_boot"
  /\ config.randomize_mode = "PerBoot"
  /\ config.shuffle_exclusions = {"a/deck_startup.webm"}
  /\ lastMgr.id = "b/deck_startup.webm"

\* The id the configuration names for an animation type (config.rs 17-19).
configured_id(anim_type) ==
  CASE anim_type = "Boot" -> config.current_boot_animation
    [] anim_type = "Suspend" -> config.current_suspend_animation
    [] OTHER -> None

\* C13: in Disabled mode the id a handler of Starting, Suspending or Resuming
\* applies is the id configured for the type it applies, and with no id
\* configured for that type it applies nothing.
C13_DisabledUsesConfigured ==
  (config.randomize_mode = "Disabled" /\ lastMgr.op \in PrepareOps)
  => /\ lastMgr.id = configured_id(lastMgr.anim_type)
     /\ configured_id(lastMgr.anim_type) = None
          => (lastMgr.calls = <<>> /\ lastMgr.binds = <<>> /\ lastMgr.invoked = 0)

\* C14: in PerBoot mode the id a handler of Starting or Suspending applies is
\* one select_random_animation can draw for that type: an entry of the
\* catalog of that type outside the exclusions, or none when there is none.
C14_PerBootDrawsFromCandidates ==
  (config.randomize_mode = "PerBoot" /\ lastMgr.op \in {"prepare_boot", "prepare_suspend"})
  => lastMgr.id \in select_random_animation(animations, config, lastMgr.anim_type)

\* C15: between two calls of the manager (after an apply has returned, with
\* success or not, and after cleanup) the target of each animation type is
\* absent or has a cache file bound on it: it is no unbound placeholder file.
C15_NoUnboundPlaceholder ==
  \A t \in AnimationTypes : targets[t].state \in {"absent", "mounted"}

\* C16: a receiver that fell behind is recoverable: when the dispatch loop
\* finds that events were dropped for it, it does not end; it goes on to the
\* events that are left.
C16_LagRecoverable ==
  exitCause # "lagged"

\* C17: on every teardown (the shutdown signal, or run_daemon returning)
\* cleanup has run before main returns.
C17_CleanupOnTeardown ==
  daemonPc = "stopped" => lastMgr.op = "cleanup"

\* C18: a polling tick on which the process table cannot be enumerated is
\* skipped: nothing is published, current_steam_pids is kept, and the
\* detector is still running.
C18_FailedTickSkipped ==
  lastMon.op = "poll_failed" =>
    /\ lastMon.emitted = <<>>
    /\ current_steam_pids = lastMon.prevPids
    /\ monitorPc = "running"

\* The selection a handler makes has no candidate: for Boot (Starting and
\* Resuming) no configured id in Disabled mode and no entry of the type
\* outside the exclusions in the other modes; for Suspend no configured id and
\* no entry of the type outside the exclusions.
NoCandidate ==
  LET free(t) == {id \in DOMAIN animations :
                    /\ animations[id].animation_type = t
                    /\ id \notin config.shuffle_exclusions}
  IN  \/ /\ lastMgr.op \in {"prepare_boot", "prepare_resume"}
         /\ IF config.randomize_mode = "Disabled"
              THEN config.current_boot_animation = None
              ELSE free("Boot") = {}
      \/ /\ lastMgr.op = "prepare_suspend"
         /\ config.current_suspend_animation = None
         /\ free("Suspend") = {}

KeySettings ==
  {"max_animation_duration", "target_width", "target_height", "video_quality"}

\* C20: for the same source file (path, length and modification time), a
\* configuration that differs in one of video_quality, target_width,
\* target_height and max_animation_duration gives generate_cache_key other
\* bytes to hash and so another key; and two configurations give the same
\* key only when they give the same bytes.
C20_KeyDependsOnSettings ==
  (lastVp.op = "key" /\ lastVp.ok)
  => /\ lastVp.key = generate_cache_key(lastVp.path, lastVp.src, config)
     /\ \A c \in KeyConfigs :
          /\ (generate_cache_key(lastVp.path, lastVp.src, c) = lastVp.key)
               <=> (hash_input(lastVp.path, lastVp.src, c)
                      = hash_input(lastVp.path, lastVp.src, config))
          /\ Cardinality({f \in KeySettings : c[f] # config[f]}) = 1
               => /\ hash_input(lastVp.path, lastVp.src, c)
                       # hash_input(lastVp.path, lastVp.src, config)
                  /\ generate_cache_key(lastVp.path, lastVp.src, c) # lastVp.key

\* C20 witness: a key was computed, under settings that are not the default
\* ones, for a source file that had just been changed.
C20_Witness ==
  /\ lastVp.op = "key"
  /\ lastVp.ok
  /\ lastVp.src = [len |-> 2 * MB, modified |-> Day]
  /\ config.video_quality = 24
  /\ prevVp.op = "touch"

\* The settings of a Config that save and load carry.
Settings(c) ==
  [f \in {"randomize_mode", "current_boot_animation", "current_suspend_animation",
          "shuffle_exclusions", "max_animation_duration", "target_width",
          "target_height", "video_quality", "max_cache_size_mb",
          "cache_max_age_days"} |-> c[f]]

\* A load that succeeded on the file the save just before it wrote.
LoadedAfterSave == lastCfg.op = "load" /\ lastCfg.ok /\ lastCfg.saved # {}

\* The numeric settings lie in the ranges validate_and_fix accepts.
InRange(c) ==
  /\ c.max_animation_duration \in 1..30
  /\ c.video_quality \in 10..50
  /\ c.target_width # 0 /\ c.target_height # 0
  /\ c.max_cache_size_mb # 0

\* C21 as stated: for every Config value, a save followed by a load returns
\* a configuration whose settings equal the saved ones.
C21_RoundTripAny ==
  LoadedAfterSave =>
    \A s \in lastCfg.saved, l \in lastCfg.loaded : Settings(l) = Settings(s)

\* C21 amended: a save followed by a successful load returns the mode, the
\* configured animations, the exclusions and the maximal age as saved, and
\* each numeric setting as saved when it lies in its accepted range: a
\* duration of 0 comes back as 5 and one above 30 as 30, a quality outside
\* 10..50 as 23, a resolution with a zero side as 1280x720 and a cache size
\* of 0 as 500.
C21_RoundTripInRange ==
  LoadedAfterSave =>
    \A s \in lastCfg.saved, l \in lastCfg.loaded :
       /\ \A f \in {"randomize_mode", "current_boot_animation",
                    "current_suspend_animation", "shuffle_exclusions",
                    "cache_max_age_days"} : l[f] = s[f]
       /\ l.max_animation_duration =
            IF s.max_animation_duration = 0 THEN 5
            ELSE IF s.max_animation_duration > 30 THEN 30
            ELSE s.max_animation_duration
       /\ l.video_quality = IF s.video_quality \in 10..50 THEN s.video_quality ELSE 23
       /\ <<l.target_width, l.target_height>> =
            IF s.target_width = 0 \/ s.target_height = 0
            THEN <<1280, 720>> ELSE <<s.target_width, s.target_height>>
       /\ l.max_cache_size_mb = IF s.max_cache_size_mb = 0 THEN 500 ELSE s.max_cache_size_mb
       /\ (InRange(s) => Settings(l) = Settings(s))

\* A Config with the mode PerBoot, the quality 30 and a configured boot
\* animation, as the test of lines 278-292 saves it, came back from a load.
C21_Witness ==
  /\ LoadedAfterSave
  /\ \E s \in lastCfg.saved :
       /\ s.randomize_mode = "PerBoot"
       /\ s.video_quality = 30
       /\ s.current_boot_animation # None
       /\ InRange(s)
       /\ lastCfg.loaded = {s}

\* The detector takes the oldest unread SystemEvent off the journal channel.
ReceivesJournal(event) ==
  /\ monitorPc = "running"
  /\ journal # <<>>
  /\ Head(journal) = event
  /\ journal' = Tail(journal)
  /\ steps' = steps + 1

\* C22: on every event of the journal channel that is a suspend marker,
\* with the target process running or not and whatever was_suspended is,
\* was_suspended becomes true and exactly one event, Suspending, is
\* published.
C22_SuspendAlwaysPublished ==
  [][ReceivesJournal("Suspend") =>
       /\ was_suspended' = TRUE
       /\ published' = Append(published, "Suspending")
       /\ lastMon'.emitted = <<"Suspending">>]_vars

\* A suspend marker was handled while the target process was running and
\* was_suspended was set already.
C22_Witness ==
  /\ lastMon.op = "journal"
  /\ lastMon.event = "Suspend"
  /\ lastMon.prevSuspended
  /\ lastMon.prevPids # {}
  /\ lastMon.emitted = <<"Suspending">>
  /\ was_suspended

\* C23: every line that holds a resume marker and whose event the detector
\* takes while was_suspended is true clears was_suspended and publishes
\* exactly one event, Resuming, and so no Suspending.
C23_ResumeLineResumes ==
  [][(/\ monitorPc = "running"
      /\ journal # <<>>
      /\ Head(fromResumeLine)
      /\ was_suspended
      /\ journal' = Tail(journal)
      /\ steps' = steps + 1) =>
       /\ was_suspended' = FALSE
       /\ published' = Append(published, "Resuming")]_vars

\* C24: cleanup returns Ok whatever its unmounts and removals did; a target
\* that did not exist is left alone, an existing one is removed or, where the
\* unmount or the removal failed, left as that failure leaves it; and the
\* table of current animations, the catalog with every optimized_path and
\* the cache directory are unchanged.
C24_CleanupBestEffort ==
  [][(lastMgr'.op = "cleanup" /\ ops' = ops + 1) =>
       /\ lastMgr'.ok
       /\ current_animations' = current_animations
       /\ animations' = animations
       /\ cache' = cache
       /\ \A t \in AnimationTypes :
            IF targets[t].state = "absent" THEN targets'[t] = Absent
            ELSE targets'[t] \in {u.target : u \in unmount_animation(targets[t])}
       /\ Count(lastMgr'.calls, "umount")
            <= Cardinality({t \in AnimationTypes : targets[t].state # "absent"})
       /\ lastMgr'.binds = <<>>]_vars

\* cleanup returned Ok although the target of an applied boot animation
\* could not be removed.
C24_Witness ==
  /\ lastMgr.op = "cleanup"
  /\ lastMgr.ok
  /\ lastMgr.targets_before["Boot"].state = "mounted"
  /\ targets["Boot"].state # "absent"
  /\ current_animations["Boot"] # None
  /\ animations[current_animations["Boot"]].optimized_path # NoKey

\* C25: an apply that finds something at the target path goes on, whatever
\* the unmount of it did, to write a fresh placeholder (on which it then
\* binds): no apply ends in mount_animation before it wrote the placeholder.
C25_UnmountFailureNotFatal ==
  (/\ lastMgr.op \in PrepareOps
   /\ lastMgr.anim_type # None
   /\ lastMgr.failed_at \in {None, "mount"}
   /\ lastMgr.id # None
   /\ lastMgr.targets_before[lastMgr.anim_type].state # "absent")
  => Count(lastMgr.calls, "write") = 1

\* C26: a remove_file that fails does not end the sweep: a sweep that read
\* the directory returns Ok, inspects every file of the directory once, in
\* ascending order of modification time, judges each against the total size
\* less the sizes of the files it did delete before (an undeleted file is
\* not subtracted), and leaves in the directory exactly the files it did not
\* delete.
C26_FailedDeleteDoesNotAbort ==
  [][(lastVp'.op = "sweep" /\ ops' = ops + 1 /\ lastVp'.walk # NoWalk) =>
       LET w == lastVp'.walk
       IN  /\ lastVp'.ok
           /\ {w[i].file : i \in 1..Len(w)} = cache
           /\ Len(w) = Cardinality(cache)
           /\ \A i \in 1..Len(w), j \in 1..Len(w) :
                 i < j => w[i].file.modified <= w[j].file.modified
           /\ \A i \in 1..Len(w) :
                 /\ w[i].total_size = SumSizes(cache) - DeletedSize(w, i - 1)
                 /\ w[i].should_remove <=>
                      /\ now >= w[i].file.modified
                      /\ \/ now - w[i].file.modified > max_age(config)
                         \/ w[i].total_size > max_cache_size(config)
                 /\ w[i].deleted => w[i].should_remove
           /\ cache' = {w[i].file : i \in {j \in 1..Len(w) : ~w[j].deleted}}]_vars

\* A sweep could not remove the oldest file and went on to remove the next.
C26_Witness ==
  /\ lastVp.op = "sweep"
  /\ lastVp.ok
  /\ Len(lastVp.walk) = 2
  /\ lastVp.walk[1].should_remove /\ ~lastVp.walk[1].deleted
  /\ lastVp.walk[2].deleted
  /\ lastVp.walk[1].file \in cache

\* C27: no transcoder is started on a cache file while one started earlier
\* on the same file is still running.
C27_OneTranscoderPerKey ==
  [][(lastVp'.op = "optimize" /\ ops' = ops + 1 /\ lastVp'.invoked = 1) =>
       lastVp'.key \notin ffmpegRunning]_vars

\* C28: between two calls of the manager, a type whose entry of
\* current_animations is Some(id) has the cached asset of id bound on its
\* target path.
C28_TableMatchesMount ==
  \A t \in AnimationTypes :
     current_animations[t] # None =>
       /\ current_animations[t] \in DOMAIN animations
       /\ animations[current_animations[t]].optimized_path # NoKey
       /\ targets[t] = Bound(animations[current_animations[t]].optimized_path)

\* C29: a catalog entry whose optimized_path is Some(p) has the file p in
\* the cache directory.
C29_OptimizedPathExists ==
  \A id \in DOMAIN animations :
     animations[id].optimized_path # NoKey =>
       Exists(cache, animations[id].optimized_path)

\* C30: handling an event does not restart the timer of the maintenance
\* arm: the time left until the next maintenance is no longer after an event
\* was handled than it was before.
C30_TimerSurvivesEvents ==
  [][(daemonPc = "running" /\ bus # <<>> /\ bus' = Tail(bus) /\ ops' = ops + 1
      /\ daemonPc' = "running")
       => sleep_left' <= sleep_left]_vars

\* C31: no handler applies a Throbber animation: in every reachable state
\* current_animations has no Some entry for Throbber, nothing was written
\* or bound at the Throbber target path, and no call of a handler made a
\* bind on it; a handler that applied an animation applied it as Boot
\* (Starting, Resuming) or as Suspend (Suspending), and Shutdown applied none.
C31_ThrobberNeverApplied ==
  /\ current_animations["Throbber"] = None
  /\ targets["Throbber"] = Absent
  /\ \A i \in 1..Len(lastMgr.binds) :
       lastMgr.binds[i].target # get_steam_target_path("Throbber")
  /\ \A t \in AnimationTypes :
       current_animations[t] # lastMgr.current_before[t] =>
         \/ lastMgr.op \in {"prepare_boot", "prepare_resume"} /\ t = "Boot"
         \/ lastMgr.op = "prepare_suspend" /\ t = "Suspend"
  /\ lastMgr.op = "cleanup" => lastMgr.binds = <<>>

\* Resuming was handled and bound the Boot target after Suspending had
\* bound the Suspend target, and the Throbber target is untouched.
C31_Witness ==
  /\ lastMgr.op = "prepare_resume"
  /\ lastMgr.ok
  /\ Len(lastMgr.binds) = 1
  /\ lastMgr.binds[1].target = get_steam_target_path("Boot")
  /\ targets["Boot"].state = "mounted"
  /\ targets["Suspend"].state = "mounted"
  /\ current_animations["Boot"] # None
  /\ current_animations["Suspend"] # None
  /\ targets["Throbber"] = Absent

====
